---- MODULE Spec2Model ----
(***************************************************************************)
(* Model of the qubes_policy Ansible module                                *)
(* (plugins/modules/qubes_policy.py, plugins/module_utils/policy_util.py,  *)
(* plugins/module_utils/tool_context.py).                                  *)
(*                                                                         *)
(* Each process is one run of main(): PolicyModule() followed by run().    *)
(* The processes share the remote policy store.  A step of a process is    *)
(* one external call (name validator, linter, store RPC) together with the *)
(* local code that follows it up to the next external call.  Module        *)
(* parameters are drawn when the code first reads them.                     *)
(***************************************************************************)
EXTENDS Integers, Sequences, FiniteSets, TLC

\* ------------------------------------------------------------------ bounds

\* Number of concurrent invocations of the module.
NumProcs == 2

Procs == 1..NumProcs

\* ------------------------------------------------------------ input domains

\* Raw names, as the sequence of their slash-separated segments.
Names ==
  { <<"30-example">>, <<"include", "admin-ro">>, <<"..", "30-example">>, <<"30 ex!">> }

\* Segments the external name validator rejects.
InvalidSegments == { "..", "30 ex!" }

\* Python's None, for a parameter that was not supplied.
None == "<None>"

\* Policy contents; "garbage" is the one the linter rejects.
Contents == { "", "a\n", "a", "garbage" }

\* Contents a document may hold before any invocation starts.
InitContents == { "a\n" }

\* Values of the state parameter (argument_spec gives it no choices).
States == { "present", "absent", "latest" }

\* Statuses a legacy routine may terminate the process with on failure.
ExitStatuses == { 0, 1, 2 }

\* The status ToolContext.__exit__ translates into ToolContextError.
FAILURE_STATUS == 1

\* The token present() uses when get() failed.
TOKEN_NEW == "new"

\* Tokens the store hands out, in order of issue.
TokenNames == << "t1", "t2", "t3", "t4", "t5", "t6" >>
InitToken == "t0"

\* ------------------------------------------------------------ Python values

\* A value with its Python type, for comparisons across types.
PyStr(s) == [type |-> "str", val |-> <<s>>]
PyPath(parts) == [type |-> "PurePosixPath", val |-> parts]

\* PurePath.__eq__ returns NotImplemented for a non-path operand, so == between
\* a path and a str falls back to identity and is False.
PyEq(a, b) == a.type = b.type /\ a.val = b.val

\* PurePosixPath.parent: the path without its last segment.
Parent(path) == PyPath(SubSeq(path.val, 1, Len(path.val) - 1))

\* str.rstrip() on a text given as a sequence of chunks.
Whitespace == { "\n", " " }

RECURSIVE Rstrip(_)
Rstrip(text) ==
  IF text # <<>> /\ text[Len(text)] \in Whitespace
  THEN Rstrip(SubSeq(text, 1, Len(text) - 1))
  ELSE text

\* ------------------------------------------------------- outcomes of a call

Return(v) == [kind |-> "return", value |-> v]
SystemExit(code, out) == [kind |-> "SystemExit", code |-> code, out |-> out]
CalledProcessError(output) == [kind |-> "CalledProcessError", output |-> output]
TypeError == [kind |-> "TypeError"]
ToolContextError(msg) == [kind |-> "ToolContextError", msg |-> msg]
PolicyUtilError(label, cause) ==
  [kind |-> "PolicyUtilError", label |-> label, cause |-> cause]

\* ------------------------------------------------ external legacy routines

\* qrexec.tools.qubes_policy_editor.validate_name: returns the name, or prints
\* a diagnostic and terminates the process with the status `code`.
ValidName(raw) ==
  /\ \A i \in 1..Len(raw) : raw[i] \notin InvalidSegments
  /\ Len(raw) = 1 \/ (Len(raw) = 2 /\ raw[1] = "include")

validate_name(raw, code) ==
  IF ValidName(raw) THEN Return(raw) ELSE SystemExit(code, <<"invalid policy name", "\n">>)

ValidNames == { n \in Names : ValidName(n) }

\* qrexec.tools.qubes_policy_lint.parse_file("-", show, include_service):
\* returns normally, or prints a diagnostic and terminates the process.
LintOk(content, include_service) == content # "garbage"

parse_file(content, include_service, code) ==
  IF LintOk(content, include_service)
  THEN Return(None)
  ELSE SystemExit(code, <<"syntax error", "\n">>)

\* ------------------------------------------------------------ remote store

\* The two namespaces of the remote store go by the prefix of the RPC name.

\* The include-category names: those under the directory include.
IncludeNames == { n \in ValidNames : Len(n) = 2 /\ n[1] = "include" }

\* The ordinary namespace answers for whatever name it is asked; the include
\* namespace holds the include-category names.
Keys ==
  [prefix : {"policy_"}, name : ValidNames]
    \cup [prefix : {"policy_include_"}, name : IncludeNames]

NoDoc == [exists |-> FALSE, content |-> "", token |-> "-"]
Doc(content, token) == [exists |-> TRUE, content |-> content, token |-> token]

NOT_FOUND == CalledProcessError(<<"not found", "\n">>)
CONFLICT == CalledProcessError(<<"token mismatch", "\n">>)
TRANSPORT == CalledProcessError(<<"connection failed", "\n", " ">>)

\* policy_get / policy_include_get: content and token of the document.
StoreGet(st, key) ==
  IF st[key].exists THEN Return(<<st[key].content, st[key].token>>) ELSE NOT_FOUND

\* policy_replace / policy_include_replace: conditional write. The token TOKEN_NEW
\* means "create if absent"; any other token must be the document's current one.
ReplaceAccepted(st, key, token) ==
  IF st[key].exists THEN token = st[key].token ELSE token = TOKEN_NEW

StoreReplace(st, key, token) ==
  IF ReplaceAccepted(st, key, token) THEN Return(None) ELSE CONFLICT

StoreAfterReplace(st, key, content, token, fresh) ==
  IF ReplaceAccepted(st, key, token)
  THEN [st EXCEPT ![key] = Doc(content, fresh)]
  ELSE st

\* policy_remove / policy_include_remove.
StoreRemove(st, key) ==
  IF st[key].exists THEN Return(None) ELSE NOT_FOUND

StoreAfterRemove(st, key) == [st EXCEPT ![key] = NoDoc]

\* ------------------------------------------------------------- ToolContext

\* Variant of __exit__ in which the process's output is taken as it is.
ToolContextExit_no_rstrip(body) ==
  IF body.kind = "SystemExit" /\ body.code = FAILURE_STATUS
  THEN ToolContextError(body.out)
  ELSE IF body.kind = "CalledProcessError"
       THEN ToolContextError(body.output)
       ELSE body

\* Variant of __exit__ that translates termination with any status.
ToolContextExit_any_status(body) ==
  IF body.kind = "SystemExit"
  THEN ToolContextError(body.out)
  ELSE IF body.kind = "CalledProcessError"
       THEN ToolContextError(Rstrip(body.output))
       ELSE body

\* ToolContext.__exit__: what leaves the with block, given how its body ended.
ToolContextExit(body) ==
  IF body.kind = "SystemExit" /\ body.code = FAILURE_STATUS
  THEN ToolContextError(body.out)
  ELSE IF body.kind = "CalledProcessError"
       THEN ToolContextError(Rstrip(body.output))
       ELSE body

\* ---------------------------------------------------------------- wrappers

\* client_tool: the decorator of PolicyUtil.get/remove/replace/list.
client_tool(func_name, body) ==
  LET r == ToolContextExit(body) IN
  IF r.kind = "ToolContextError"
  THEN PolicyUtilError(<<"Error during client method '", func_name, "'">>, r.msg)
  ELSE r

\* Variant of PolicyUtil.__init__ in which the validator's rejection is dropped
\* and the raw name is used.
PolicyUtilInit_unchecked(raw, code) == Return(raw)

\* PolicyUtil.__init__: name validation inside a ToolContext.
PolicyUtilInit(raw, code) ==
  LET r == ToolContextExit(validate_name(raw, code)) IN
  IF r.kind = "ToolContextError"
  THEN PolicyUtilError(<<"Name validation failed">>, r.msg)
  ELSE r

\* self.is_include = self.name.parent == "include"
IsInclude(valid_name) == PyEq(Parent(PyPath(valid_name)), PyStr("include"))

\* Variant of PolicyUtil.lint in which the linter's verdict is dropped.
PolicyUtilLint_unchecked(content, is_incl, code) ==
  IF content = None THEN TypeError ELSE Return(None)

\* Variant of PolicyUtil.lint without its except clause.
PolicyUtilLint_raw(content, is_incl, code) ==
  IF content = None
  THEN TypeError
  ELSE ToolContextExit(parse_file(content, is_incl, code))

\* PolicyUtil.lint. ToolContext(None) raises TypeError from StringIO.write
\* before the scope is entered.
PolicyUtilLint(content, is_incl, code) ==
  LET r == IF content = None
           THEN TypeError
           ELSE ToolContextExit(parse_file(content, is_incl, code)) IN
  IF r.kind = "ToolContextError"
  THEN PolicyUtilError(<<"Lint failed">>, r.msg)
  ELSE r

\* PolicyUtil._client_method: the name of the PolicyClient method called.
FunctionPrefix(is_incl) == IF is_incl THEN "policy_include_" ELSE "policy_"

FunctionName(is_incl, method_name) == FunctionPrefix(is_incl) \o method_name

\* Variant of policy_util in which the PolicyUtilError of a client method is
\* swallowed and the decorated call appears to have returned.
policy_util_swallow(r) ==
  IF r.kind = "return"
  THEN r
  ELSE IF r.kind = "PolicyUtilError"
       THEN IF r.label[1] = "Error during client method '"
            THEN Return(None)
            ELSE [kind |-> "fail_json", msg |-> r.label \o <<": ">> \o r.cause]
       ELSE [kind |-> "UnboundLocalError"]

\* Variant of policy_util whose message is the label alone, without the cause.
policy_util_label_only(r) ==
  IF r.kind = "PolicyUtilError"
  THEN [kind |-> "fail_json", msg |-> r.label]
  ELSE IF r.kind = "return"
       THEN r
       ELSE [kind |-> "UnboundLocalError"]

\* policy_util: the decorator of PolicyModule._PolicyUtil/_lint/_remove/_replace.
\* A PolicyUtilError becomes fail_json(message); any other exception reaches
\* the finally clause with `message` unbound.
policy_util(r) ==
  IF r.kind = "PolicyUtilError"
  THEN [kind |-> "fail_json", msg |-> r.label \o <<": ">> \o r.cause]
  ELSE IF r.kind = "return"
       THEN r
       ELSE [kind |-> "UnboundLocalError"]

\* ------------------------------------------- scopes opened by the wrappers

\* with ToolContext(input): body -- the scope is entered, the body runs, the
\* scope is left; ToolContext(None) raises before the scope is entered.
WithToolContext(input, inner) ==
  IF input = None THEN <<>> ELSE << "enter" >> \o inner \o << "exit" >>

\* PolicyUtil._client_method: a call of the PolicyClient, which opens no scope.
ClientMethodCaptures == <<>>

\* client_tool: with ToolContext(): value = func(*args, **kwargs).
client_tool_captures(inner) == WithToolContext("", inner)

\* PolicyUtil.__init__: with ToolContext(): editor.validate_name(name).
PolicyUtilInitCaptures == WithToolContext("", <<>>)

\* PolicyUtil.lint: with ToolContext(content): linter.parse_file(...).
PolicyUtilLintCaptures(content) == WithToolContext(content, <<>>)

\* Variant of policy_util that opens a ToolContext of its own around the call.
policy_util_captures_scoped(inner) == WithToolContext("", inner)

\* policy_util: value = func(*args, **kwargs), with no scope of its own.
policy_util_captures(inner) == inner

\* ------------------------------------------------------------------- state

VARIABLES
  pc,               \* where each invocation stands
  name,             \* PolicyUtil.name
  is_include,       \* PolicyUtil.is_include
  new_content,      \* present(): new_content
  current_content,  \* present(): current_content
  token,            \* present(): token
  check_mode,       \* {AnsibleModule.check_mode} once read, {} before
  result,           \* what the invocation handed to exit_json / fail_json
  log,              \* the external calls each invocation made, in order
  pred,             \* the invocations that had ended when this one started
  store,            \* the remote store: a document or NoDoc per key
  issued,           \* number of tokens the store has handed out
  sys_stdin,        \* the object sys.stdin refers to
  sys_stdout,       \* the object sys.stdout refers to
  scopes,           \* the ToolContext objects whose with block is open, outermost first
  entered,          \* per open scope: the streams just before it was entered, what its body wrote
  tc_count,         \* number of ToolContext constructions so far
  tc_last           \* how the body of the scope left last ended, and what left the with block

modulevars ==
  << pc, name, is_include, new_content, current_content, token, check_mode,
     result, log, pred, store, issued >>

toolvars == << sys_stdin, sys_stdout, scopes, entered, tc_count, tc_last >>

vars ==
  << pc, name, is_include, new_content, current_content, token, check_mode,
     result, log, pred, store, issued, toolvars >>

Unset == "<unset>"

\* The objects sys.stdin / sys.stdout refer to: the streams of the process, or
\* the StringIO objects of the ToolContext constructed `scope`-th.
OriginalStdin == [obj |-> "stdin", scope |-> 0]
OriginalStdout == [obj |-> "stdout", scope |-> 0]
NoScope == [body |-> [kind |-> "none"], left |-> [kind |-> "none"], wrote |-> <<>>]
NoResult == [kind |-> "none"]

TerminalPcs == { "done", "failed", "crashed", "exited" }
Terminal(p) == pc[p] \in TerminalPcs

\* One external call in the log of an invocation: the operation, the routine
\* called, its arguments (for get: what present() took from it), how it ended,
\* and for get the invocations on the same key that had read and not yet
\* written when the call was made.
Entry(op, fn, nm, content, tok, why) ==
  [op |-> op, fn |-> fn, name |-> nm, content |-> content, token |-> tok,
   why |-> why, pending |-> {},
   surfaced |-> [kind |-> "none", label |-> <<>>, code |-> {}],
   status |-> {}, captures |-> <<>>]

\* The same entry with what the PolicyUtil operation handed to its caller: the
\* kind of the outcome and, for a PolicyUtilError, its message.
Surfacing(entry, u) ==
  [entry EXCEPT !.surfaced =
     [kind |-> u.kind,
      label |-> IF u.kind = "PolicyUtilError" THEN u.label ELSE <<>>,
      code |-> IF u.kind = "SystemExit" THEN {u.code} ELSE {}]]

\* The same entry with the status the routine terminated the process with.
Ended(entry, body) ==
  [entry EXCEPT !.status = IF body.kind = "SystemExit" THEN {body.code} ELSE {}]

\* The same entry with the ToolContext scopes entered and left during the call.
Capturing(entry, events) == [entry EXCEPT !.captures = events]

\* How a legacy routine or a store call ended, for the log.
Why(body) ==
  CASE body.kind = "return" -> "ok"
    [] body.kind = "SystemExit" -> IF body.code = FAILURE_STATUS THEN "exit1" ELSE "exit_other"
    [] body = NOT_FOUND -> "not_found"
    [] body = CONFLICT -> "conflict"
    [] body = TRANSPORT -> "transport"
    [] OTHER -> body.kind

\* Variant in which a failed replace is attempted again.
PcAfter_retry(r) ==
  IF r.kind = "fail_json"
  THEN IF r.msg[2] = "replace" THEN "replace" ELSE "failed"
  ELSE "crashed"

\* Where an invocation ends when a decorated call did not return.
PcAfter(r) == IF r.kind = "fail_json" THEN "failed" ELSE "crashed"

ResultAfter(r) ==
  IF r.kind = "fail_json"
  THEN [kind |-> "fail_json", msg |-> r.msg]
  ELSE [kind |-> "crash", exc |-> r.kind]

Key(p) == [prefix |-> FunctionPrefix(is_include[p]), name |-> name[p]]

Init ==
  /\ pc = [p \in Procs |-> "start"]
  /\ name = [p \in Procs |-> <<>>]
  /\ is_include = [p \in Procs |-> FALSE]
  /\ new_content = [p \in Procs |-> Unset]
  /\ current_content = [p \in Procs |-> Unset]
  /\ token = [p \in Procs |-> Unset]
  /\ check_mode = [p \in Procs |-> {}]
  /\ result = [p \in Procs |-> NoResult]
  /\ log = [p \in Procs |-> <<>>]
  /\ pred = [p \in Procs |-> {}]
  /\ store \in [Keys -> {NoDoc} \cup { Doc(c, InitToken) : c \in InitContents }]
  /\ issued = 0
  /\ sys_stdin = OriginalStdin
  /\ sys_stdout = OriginalStdout
  /\ scopes = <<>>
  /\ entered = <<>>
  /\ tc_count = 0
  /\ tc_last = NoScope

\* ----------------------------------------------------------------- actions

\* PolicyModule.__init__: self.policy_util = self._PolicyUtil(params["name"]).
Construct(p) ==
  /\ UNCHANGED toolvars
  /\ pc[p] = "start"
  /\ \E raw \in Names, code \in ExitStatuses :
       LET body == validate_name(raw, code)
           u == PolicyUtilInit(raw, code)
           r == policy_util(u) IN
       /\ log' = [log EXCEPT ![p] =
                    Append(@, Capturing(Ended(Surfacing(Entry("validate_name", "validate_name",
                                                              raw, "-", "-", Why(body)), u),
                                              body),
                                        policy_util_captures(PolicyUtilInitCaptures)))]
       /\ IF r.kind = "return"
          THEN /\ name' = [name EXCEPT ![p] = r.value]
               /\ is_include' = [is_include EXCEPT ![p] = IsInclude(r.value)]
               /\ pc' = [pc EXCEPT ![p] = "run"]
               /\ UNCHANGED result
          ELSE /\ pc' = [pc EXCEPT ![p] = PcAfter(r)]
               /\ result' = [result EXCEPT ![p] = ResultAfter(r)]
               /\ UNCHANGED << name, is_include >>
  /\ pred' = [pred EXCEPT ![p] = { q \in Procs : Terminal(q) }]
  /\ UNCHANGED << new_content, current_content, token, check_mode, store, issued >>

\* PolicyModule.run: dispatch on params["state"]; any other value returns
\* without a report.
Run(p) ==
  /\ UNCHANGED toolvars
  /\ pc[p] = "run"
  /\ \E st \in States :
       pc' = [pc EXCEPT ![p] =
                CASE st = "present" -> "present"
                  [] st = "absent" -> "absent"
                  [] OTHER -> "exited"]
  /\ UNCHANGED << name, is_include, new_content, current_content, token,
                  check_mode, result, log, pred, store, issued >>

\* present(): new_content = source or content; self._lint(new_content).
Lint(p) ==
  /\ UNCHANGED toolvars
  /\ pc[p] = "present"
  /\ \E c \in Contents \cup {None}, code \in ExitStatuses :
       LET body == IF c = None THEN TypeError ELSE parse_file(c, is_include[p], code)
           u == PolicyUtilLint(c, is_include[p], code)
           r == policy_util(u) IN
       /\ new_content' = [new_content EXCEPT ![p] = c]
       /\ log' = [log EXCEPT ![p] =
                    Append(@, Capturing(Ended(Surfacing(Entry("lint", "parse_file", name[p],
                                                              c, "-", Why(body)), u),
                                              body),
                                        policy_util_captures(PolicyUtilLintCaptures(c))))]
       /\ IF r.kind = "return"
          THEN /\ pc' = [pc EXCEPT ![p] = "get"]
               /\ UNCHANGED result
          ELSE /\ pc' = [pc EXCEPT ![p] = PcAfter(r)]
               /\ result' = [result EXCEPT ![p] = ResultAfter(r)]
  /\ UNCHANGED << name, is_include, current_content, token, check_mode, pred,
                  store, issued >>

\* Variant of _result with before and after exchanged.
ModuleResult_swapped(changed, nm, incl, before, after, diff) ==
  [changed |-> changed, name |-> nm, is_include |-> incl,
   diff |-> IF diff THEN <<after, before>> ELSE <<>>]

\* PolicyModule._result: the common part of a report, with the diff in diff
\* mode only.
ModuleResult(changed, nm, incl, before, after, diff) ==
  [changed |-> changed, name |-> nm, is_include |-> incl,
   diff |-> IF diff THEN <<before, after>> ELSE <<>>]

\* present(): exit_json(**self._result(changed, current_content, new_content),
\*                      state="present", new=(token == "new"), content=new_content)
PresentReport(changed, nm, incl, cur, new, tok, diff) ==
  LET common == ModuleResult(changed, nm, incl, cur, new, diff) IN
  [kind |-> "exit_json", changed |-> common.changed, name |-> common.name,
   is_include |-> common.is_include, diff |-> common.diff,
   state |-> "present", new |-> (tok = TOKEN_NEW), content |-> new]

\* absent(): self._result(changed, self.policy_util.name, "", changed=True)
\* binds `changed` twice; Python raises TypeError before _result runs, so
\* exit_json is never reached.
AbsentReport(changed, nm, incl, diff) == TypeError

\* Variant of present()'s recovery in which current_content is None, not "".
PresentRead_none(r) ==
  IF r.kind = "PolicyUtilError" THEN << None, TOKEN_NEW >> ELSE r.value

\* present(): what get() yields, with the recovery of a PolicyUtilError.
PresentRead(r) ==
  IF r.kind = "PolicyUtilError" THEN << "", TOKEN_NEW >> ELSE r.value

\* Variant of the decision that replaces whenever check mode is off.
NeedsReplace_always(check, cur, new) == ~check

\* Variant of the decision that does not look at check mode.
NeedsReplace_ignore_check(check, cur, new) == cur # new

\* Variant of the decision that compares the contents without their trailing
\* newline.
Normalised(content) == IF content = "a\n" THEN "a" ELSE content

NeedsReplace_normalising(check, cur, new) ==
  ~check /\ Normalised(cur) # Normalised(new)

\* present(): the decision that follows get().
NeedsReplace(check, cur, new) == ~(check \/ cur = new)

\* present(): self.policy_util.get() and the decision; without a replace the
\* invocation reports at once.
Get(p) ==
  /\ UNCHANGED toolvars
  /\ pc[p] = "get"
  /\ \E fault \in BOOLEAN, check \in BOOLEAN, diff \in BOOLEAN :
       LET fn == FunctionName(is_include[p], "get")
           body == IF fault THEN TRANSPORT ELSE StoreGet(store, Key(p))
           r == client_tool("get", body)
           cur == PresentRead(r)[1]
           tok == PresentRead(r)[2] IN
       /\ log' = [log EXCEPT ![p] =
                    Append(@, [Capturing(Surfacing(Entry("get", fn, name[p], cur, tok,
                                                            Why(body)), r),
                                         client_tool_captures(ClientMethodCaptures))
                                 EXCEPT
                                 !.pending = { q \in Procs \ {p} :
                                                 pc[q] = "replace" /\ Key(q) = Key(p) }])]
       /\ current_content' = [current_content EXCEPT ![p] = cur]
       /\ token' = [token EXCEPT ![p] = tok]
       /\ check_mode' = [check_mode EXCEPT ![p] = {check}]
       /\ IF NeedsReplace(check, cur, new_content[p])
          THEN /\ pc' = [pc EXCEPT ![p] = "replace"]
               /\ UNCHANGED result
          ELSE /\ pc' = [pc EXCEPT ![p] = "done"]
               /\ result' = [result EXCEPT ![p] =
                    PresentReport(FALSE, name[p], is_include[p], cur, new_content[p], tok, diff)]
  /\ UNCHANGED << name, is_include, new_content, pred, store, issued >>

\* Variant of present() that hands current_content to _replace.
ReplaceArgs_current(new, cur, tok) == << cur, tok >>

\* present(): the arguments of self._replace(new_content, token).
ReplaceArgs(new, cur, tok) == << new, tok >>

\* present(): self._replace(new_content, token), changed = True, exit_json.
Replace(p) ==
  /\ UNCHANGED toolvars
  /\ pc[p] = "replace"
  /\ \E fault \in BOOLEAN, diff \in BOOLEAN :
       LET fn == FunctionName(is_include[p], "replace")
           args == ReplaceArgs(new_content[p], current_content[p], token[p])
           body == IF fault THEN TRANSPORT ELSE StoreReplace(store, Key(p), args[2])
           u == client_tool("replace", body)
           r == policy_util(u) IN
       /\ log' = [log EXCEPT ![p] =
                    Append(@, Capturing(Surfacing(Entry("replace", fn, name[p], args[1],
                                                        args[2], Why(body)), u),
                                        policy_util_captures(
                                          client_tool_captures(ClientMethodCaptures))))]
       /\ store' = IF fault
                   THEN store
                   ELSE StoreAfterReplace(store, Key(p), args[1], args[2],
                                          TokenNames[issued + 1])
       /\ issued' = IF body.kind = "return" THEN issued + 1 ELSE issued
       /\ IF r.kind = "return"
          THEN /\ pc' = [pc EXCEPT ![p] = "done"]
               /\ result' = [result EXCEPT ![p] =
                    PresentReport(TRUE, name[p], is_include[p], current_content[p],
                                  new_content[p], token[p], diff)]
          ELSE /\ pc' = [pc EXCEPT ![p] = PcAfter(r)]
               /\ result' = [result EXCEPT ![p] = ResultAfter(r)]
  /\ UNCHANGED << name, is_include, new_content, current_content, token,
                  check_mode, pred >>

\* absent(): check mode or self._remove(), then the report.
Absent(p) ==
  /\ UNCHANGED toolvars
  /\ pc[p] = "absent"
  /\ \E fault \in BOOLEAN, check \in BOOLEAN, diff \in BOOLEAN :
       LET fn == FunctionName(is_include[p], "remove")
           body == IF fault THEN TRANSPORT ELSE StoreRemove(store, Key(p))
           u == client_tool("remove", body)
           r == IF check THEN Return(None) ELSE policy_util(u)
           report == AbsentReport(~check, name[p], is_include[p], diff) IN
       /\ check_mode' = [check_mode EXCEPT ![p] = {check}]
       /\ log' = IF check
                 THEN log
                 ELSE [log EXCEPT ![p] =
                         Append(@, Capturing(Surfacing(Entry("remove", fn, name[p], "-", "-",
                                                             Why(body)), u),
                                             policy_util_captures(
                                               client_tool_captures(ClientMethodCaptures))))]
       /\ store' = IF ~check /\ body.kind = "return"
                   THEN StoreAfterRemove(store, Key(p))
                   ELSE store
       /\ IF r.kind # "return"
          THEN /\ pc' = [pc EXCEPT ![p] = PcAfter(r)]
               /\ result' = [result EXCEPT ![p] = ResultAfter(r)]
          ELSE IF report.kind = "exit_json"
               THEN /\ pc' = [pc EXCEPT ![p] = "done"]
                    /\ result' = [result EXCEPT ![p] = report]
               ELSE /\ pc' = [pc EXCEPT ![p] = "crashed"]
                    /\ result' = [result EXCEPT ![p] = [kind |-> "crash", exc |-> report.kind]]
  /\ UNCHANGED << name, is_include, new_content, current_content, token, pred, issued >>

Next ==
  \E p \in Procs :
    \/ Construct(p)
    \/ Run(p)
    \/ Lint(p)
    \/ Get(p)
    \/ Replace(p)
    \/ Absent(p)

Spec == Init /\ [][Next]_vars

\* ------------------------------------------- ToolContext scopes on their own

MaxScopes == 3
MaxDepth == 2
MaxWrites == 2

\* What a with block is given and what its body does: the input text, the
\* chunks the body prints, and the ways the body ends.
ToolInputs == { None, "", "a\n" }
Chunks == { "error", "\n" }
ToolExitCodes == { 0, 1, 2 }
ProcessOutputs == { NOT_FOUND.output, TRANSPORT.output, <<>> }
OtherException == [kind |-> "ValueError"]

BodyEndings(captured) ==
  { Return(None), OtherException }
    \cup { SystemExit(code, captured) : code \in ToolExitCodes }
    \cup { CalledProcessError(output) : output \in ProcessOutputs }

\* ToolContext.__init__: two StringIO objects, the input one holding `input`.
\* StringIO.write(None) raises TypeError.
ToolContextInit(input, k) ==
  IF input = None
  THEN TypeError
  ELSE Return([ input |-> [obj |-> "input", scope |-> k],
                input_text |-> input,
                output |-> [obj |-> "output", scope |-> k],
                output_text |-> <<>>,
                stdin |-> [obj |-> Unset, scope |-> k],
                stdout |-> [obj |-> Unset, scope |-> k] ])

\* ToolContext.__enter__: self.stdin = sys.stdin; self.stdout = sys.stdout.
ToolContextEnter(tc, stdin, stdout) ==
  [tc EXCEPT !.stdin = stdin, !.stdout = stdout]

\* Variant of the head of __exit__ in which the streams are put back only when
\* the body returned.
ToolContextRestore_on_return(tc, body, cur) ==
  IF body.kind = "return" THEN [stdin |-> tc.stdin, stdout |-> tc.stdout] ELSE cur

\* ToolContext.__exit__, its first two statements: sys.stdin = self.stdin;
\* sys.stdout = self.stdout, whatever ended the body.
ToolContextRestore(tc, body, cur) == [stdin |-> tc.stdin, stdout |-> tc.stdout]

\* with ToolContext(input): the constructor, then __enter__.
TcEnter ==
  /\ tc_count < MaxScopes
  /\ Len(scopes) < MaxDepth
  /\ \E input \in ToolInputs :
       LET k == tc_count + 1
           made == ToolContextInit(input, k) IN
       /\ tc_count' = k
       /\ IF made.kind # "return"
          THEN /\ tc_last' = [NoScope EXCEPT !.left = made]
               /\ UNCHANGED << sys_stdin, sys_stdout, scopes, entered >>
          ELSE LET tc == ToolContextEnter(made.value, sys_stdin, sys_stdout) IN
               /\ scopes' = Append(scopes, tc)
               /\ entered' = Append(entered, [ stdin |-> sys_stdin,
                                               stdout |-> sys_stdout,
                                               wrote |-> <<>> ])
               /\ sys_stdin' = tc.input
               /\ sys_stdout' = tc.output
               /\ UNCHANGED tc_last
  /\ UNCHANGED modulevars

\* The body of the innermost open scope prints: the chunk goes to the object
\* sys.stdout refers to.
TcWrite(chunk) ==
  /\ scopes # <<>>
  /\ Len(entered[Len(entered)].wrote) < MaxWrites
  /\ scopes' = [ i \in DOMAIN scopes |->
                   IF scopes[i].output = sys_stdout
                   THEN [scopes[i] EXCEPT !.output_text = @ \o << chunk >>]
                   ELSE scopes[i] ]
  /\ entered' = [entered EXCEPT ![Len(entered)].wrote = @ \o << chunk >>]
  /\ UNCHANGED << sys_stdin, sys_stdout, tc_count, tc_last >>
  /\ UNCHANGED modulevars

\* The body of the innermost open scope ends and __exit__ runs.
TcExit ==
  /\ scopes # <<>>
  /\ LET n == Len(scopes)
         tc == scopes[n] IN
     \E body \in BodyEndings(tc.output_text) :
       LET after == ToolContextRestore(tc, body,
                      [stdin |-> sys_stdin, stdout |-> sys_stdout]) IN
       /\ sys_stdin' = after.stdin
       /\ sys_stdout' = after.stdout
       /\ scopes' = SubSeq(scopes, 1, n - 1)
       /\ entered' = SubSeq(entered, 1, n - 1)
       /\ tc_last' = [ body |-> body,
                       left |-> ToolContextExit(body),
                       wrote |-> entered[n].wrote ]
  /\ UNCHANGED tc_count
  /\ UNCHANGED modulevars

NextTool ==
  \/ TcEnter
  \/ \E chunk \in Chunks : TcWrite(chunk)
  \/ TcExit

SpecTool == Init /\ [][NextTool]_vars

\* ------------------------------------------------------- reading the log

StoreOps == { "get", "replace", "remove", "list" }

Entries(p, op) == { i \in DOMAIN log[p] : log[p][i].op = op }
Did(p, op) == Entries(p, op) # {}
TheEntry(p, op) == log[p][CHOOSE i \in Entries(p, op) : TRUE]
Succeeded(p, op) == \E i \in Entries(p, op) : log[p][i].why = "ok"
StoreCalls(p) == { i \in DOMAIN log[p] : log[p][i].op \in StoreOps }

\* The invocation changed the document at `key`.
Mutated(p, key) ==
  /\ Key(p) = key
  /\ Succeeded(p, "replace") \/ Succeeded(p, "remove")

\* One of the invocation's store calls failed in transport.
Faulted(p) == \E i \in DOMAIN log[p] : log[p][i].why = "transport"

\* No invocation outside S changed the document at `key`.
OthersQuiet(key, S) == \A r \in Procs \ S : ~Mutated(r, key)

\* p had read and not yet written when q read the same document.
Concurrent(p, q) ==
  /\ p # q
  /\ Did(q, "get")
  /\ p \in TheEntry(q, "get").pending

ReplaceFailure(cause) ==
  << "Error during client method '", "replace", "'", ": " >> \o cause

\* ------------------------------------------------------------------ claims

\* C1. Two Present invocations on the same name that both get before either
\* replaces (and no third writer on that name): at most one replace succeeds;
\* when no call fails in transport exactly one does and the other is rejected
\* by the store as a conflict; an invocation whose replace failed ends with a
\* failure report naming replace; the store holds the content of the
\* invocation whose replace succeeded.
C1_ConflictSurfaced ==
  \A p, q \in Procs :
    ( /\ Concurrent(p, q)
      /\ Did(p, "replace") /\ Did(q, "replace")
      /\ OthersQuiet(Key(p), {p, q}) )
    => /\ ~(Succeeded(p, "replace") /\ Succeeded(q, "replace"))
       /\ \A w \in {p, q} :
            IF Succeeded(w, "replace")
            THEN /\ pc[w] = "done"
                 /\ store[Key(w)].exists
                 /\ store[Key(w)].content = new_content[w]
            ELSE /\ pc[w] = "failed"
                 /\ result[w].kind = "fail_json"
                 /\ result[w].msg \in { ReplaceFailure(<<"token mismatch">>),
                                        ReplaceFailure(<<"connection failed">>) }
       /\ (~Faulted(p) /\ ~Faulted(q)) =>
            \E w \in {p, q}, l \in {p, q} :
              /\ w # l
              /\ Succeeded(w, "replace")
              /\ TheEntry(l, "replace").why = "conflict"

C1_Witness ==
  \E p, q \in Procs :
    /\ Concurrent(p, q)
    /\ Succeeded(p, "replace")
    /\ Did(q, "replace") /\ TheEntry(q, "replace").why = "conflict"
    /\ TheEntry(q, "replace").token # TOKEN_NEW
    /\ pc[q] = "failed"

\* C2. In the Present workflow every get and replace of an invocation comes
\* after a successful lint of the same invocation, and a replace carries the
\* content that lint passed; an invocation whose lint failed has issued no
\* store call and ends without a success report, with the failure report
\* "Lint failed: ..." when the linter ended with the failure status.
C2_LintFirst ==
  \A p \in Procs :
    /\ \A i \in DOMAIN log[p] :
         log[p][i].op \in { "get", "replace" } =>
           \E j \in 1..(i - 1) :
             /\ log[p][j].op = "lint"
             /\ log[p][j].why = "ok"
             /\ log[p][i].op = "replace" => log[p][j].content = log[p][i].content
    /\ (Did(p, "lint") /\ TheEntry(p, "lint").why # "ok") =>
         /\ StoreCalls(p) = {}
         /\ pc[p] \in { "failed", "crashed" }
         /\ result[p].kind # "exit_json"
         /\ TheEntry(p, "lint").why = "exit1" =>
              /\ pc[p] = "failed"
              /\ result[p] = [kind |-> "fail_json",
                              msg |-> << "Lint failed", ": ", "syntax error", "\n" >>]

C2_Witness ==
  \E p, q \in Procs :
    /\ Did(p, "lint") /\ TheEntry(p, "lint").why = "exit1" /\ pc[p] = "failed"
    /\ Succeeded(q, "replace")

\* C3. When the name validator rejects the raw name, the invocation makes no
\* further external call (no lint, no get, replace, remove or list) and ends
\* without a success report; when the validator ended with the failure status
\* the invocation ends with the failure report "Name validation failed: ...".
C3_NameRejected ==
  \A p \in Procs :
    (log[p] # <<>> /\ ~ValidName(log[p][1].name)) =>
      /\ Len(log[p]) = 1
      /\ log[p][1].op = "validate_name"
      /\ pc[p] \in { "failed", "crashed" }
      /\ result[p].kind # "exit_json"
      /\ log[p][1].why = "exit1" =>
           /\ pc[p] = "failed"
           /\ result[p] = [kind |-> "fail_json",
                           msg |-> << "Name validation failed", ": ",
                                      "invalid policy name", "\n" >>]

C3_Witness ==
  \E p \in Procs :
    /\ log[p] # <<>>
    /\ log[p][1].name = << "..", "30-example" >>
    /\ log[p][1].why = "exit1"
    /\ pc[p] = "failed"

\* C4. For a name under include (include/admin-ro) is_include is true and
\* every store call goes to the policy_include_* method; for any other name
\* is_include is false and the policy_* method is called.
C4_IncludeDispatch ==
  \A p \in Procs :
    (pc[p] # "start" /\ ValidName(log[p][1].name)) =>
      /\ is_include[p] = (name[p] \in IncludeNames)
      /\ \A i \in StoreCalls(p) :
           log[p][i].fn =
             (IF name[p] \in IncludeNames THEN "policy_include_" ELSE "policy_")
               \o log[p][i].op

KeyNext(p) == [prefix |-> FunctionPrefix(is_include'[p]), name |-> name'[p]]

RoundTripNext(p) ==
  LET got == StoreGet(store', KeyNext(p)) IN
  /\ got.kind = "return"
  /\ got.value[1] = new_content'[p]
  /\ got.value[2] # TOKEN_NEW

\* C6 (as stated). Whenever a Present invocation with content C ends in
\* success, a get on the same name returns C and a token other than "new".
C6_RoundTripAsStated ==
  [][ \A p \in Procs :
        (pc[p] # "done" /\ pc'[p] = "done" /\ result'[p].state = "present")
          => RoundTripNext(p) ]_vars

\* How the invocation's get ended, in the next state.
GetWhyNext(p) ==
  log'[p][CHOOSE i \in DOMAIN log'[p] : log'[p][i].op = "get"].why

\* C6 (amended). Whenever a Present invocation that is not in check mode ends
\* in success with content C, where C is non-empty or the invocation's get
\* found the document, a get on the same name returns C and a token other
\* than "new".
C6_RoundTrip ==
  [][ \A p \in Procs :
        ( /\ pc[p] # "done" /\ pc'[p] = "done"
          /\ result'[p].state = "present"
          /\ check_mode'[p] = {FALSE}
          /\ new_content'[p] # "" \/ GetWhyNext(p) = "ok" )
          => RoundTripNext(p) ]_vars

C6_Witness ==
  \E p \in Procs :
    /\ pc[p] = "done" /\ result[p].changed = TRUE
    /\ new_content[p] = "a"
    /\ StoreGet(store, Key(p)) = Return(<< "a", "t1" >>)

\* C7. Present with empty content on a name the store reports as not found
\* ends in success with changed false and issues no replace; no invocation
\* ever issues a replace that would create a document with empty content, and
\* no step of the system brings an empty document into existence.
C7_NoEmptyCreation ==
  [][ /\ \A p \in Procs :
           /\ ( /\ pc[p] = "get" /\ pc'[p] # "get"
                /\ log'[p][Len(log'[p])].why = "not_found"
                /\ new_content[p] = "" )
              => /\ pc'[p] = "done"
                 /\ result'[p].kind = "exit_json"
                 /\ result'[p].changed = FALSE
           /\ \A i \in DOMAIN log'[p] :
                log'[p][i].op = "replace" =>
                  ~(log'[p][i].content = "" /\ log'[p][i].token = TOKEN_NEW)
      /\ \A k \in Keys :
           (~store[k].exists /\ store'[k].exists) => store'[k].content # "" ]_vars

C7_Witness ==
  \E p \in Procs :
    /\ Did(p, "get") /\ TheEntry(p, "get").why = "not_found"
    /\ new_content[p] = ""
    /\ check_mode[p] = {FALSE}
    /\ pc[p] = "done" /\ result[p].changed = FALSE
    /\ ~store[Key(p)].exists

\* C8. Absent, not in check mode, on a name with no document ends in success
\* with changed false: a remove that fails because the document does not
\* exist is not reported as a failure.
C8_AbsentIdempotent ==
  \A p \in Procs :
    (Did(p, "remove") /\ TheEntry(p, "remove").why = "not_found") =>
      /\ pc[p] = "done"
      /\ result[p].kind = "exit_json"
      /\ result[p].changed = FALSE

\* C9. No step of an invocation that runs in check mode changes the store, and
\* such an invocation never issues replace or remove.
C9_CheckModeNoMutation ==
  [][ \A p \in Procs :
        (check_mode'[p] = {TRUE} /\ (pc'[p] # pc[p] \/ log'[p] # log[p])) =>
          /\ store' = store
          /\ \A i \in DOMAIN log'[p] : log'[p][i].op \notin { "replace", "remove" } ]_vars

C9_Witness ==
  \E p, q \in Procs :
    /\ check_mode[p] = {TRUE} /\ pc[p] = "done"
    /\ current_content[p] # new_content[p]
    /\ check_mode[q] = {TRUE} /\ pc[q] = "crashed"
    /\ ~Did(q, "lint") /\ store[Key(q)].exists

\* What C10 says of the invocation apart from the diff.
CreationOutcome(p) ==
  /\ current_content[p] = "" /\ token[p] = TOKEN_NEW
  /\ Cardinality(Entries(p, "replace")) = 1
  /\ TheEntry(p, "replace").content = new_content[p]
  /\ TheEntry(p, "replace").token = TOKEN_NEW
  /\ IF TheEntry(p, "replace").why = "ok"
     THEN /\ pc[p] = "done"
          /\ result[p].kind = "exit_json"
          /\ result[p].state = "present"
          /\ result[p].changed = TRUE
          /\ result[p].new = TRUE
          /\ result[p].content = new_content[p]
          /\ result[p].name = name[p]
     ELSE pc[p] = "failed"

CreationCase(p) ==
  /\ Terminal(p)
  /\ Did(p, "get") /\ TheEntry(p, "get").why = "not_found"
  /\ check_mode[p] = {FALSE}
  /\ new_content[p] # ""

C11_AbsentRemoves ==
  \A p \in Procs :
    Succeeded(p, "remove") =>
      /\ pc[p] = "done"
      /\ result[p].kind = "exit_json"
      /\ result[p].state = "absent"
      /\ result[p].changed = TRUE
      /\ OthersQuiet(Key(p), {p}) => ~store[Key(p)].exists

\* C12. In the Present workflow a get that fails in transport while the
\* document exists is not recovered: the invocation ends with a failure
\* report and issues no replace.
C12_OnlyNotFoundRecovered ==
  [][ \A p \in Procs :
        ( /\ pc[p] = "get" /\ pc'[p] # "get"
          /\ log'[p][Len(log'[p])].why = "transport"
          /\ store[Key(p)].exists )
        => /\ pc'[p] = "failed"
           /\ result'[p].kind = "fail_json" ]_vars

\* C13. Whenever replace (Present) or remove (Absent) fails at the store, the
\* invocation ends with a failure report that names the operation, never with
\* a success result, and the store is as it was before the failed call.
C13_MutationFailureIsHard ==
  [][ \A p \in Procs :
        ( /\ log'[p] # log[p]
          /\ log'[p][Len(log'[p])].op \in { "replace", "remove" }
          /\ log'[p][Len(log'[p])].why # "ok" )
        => /\ pc'[p] = "failed"
           /\ result'[p].kind = "fail_json"
           /\ result'[p].msg[2] = log'[p][Len(log'[p])].op
           /\ store' = store ]_vars

C13_Witness ==
  \E p, q \in Procs :
    /\ Did(p, "replace") /\ TheEntry(p, "replace").why = "conflict"
    /\ pc[p] = "failed"
    /\ Did(q, "remove") /\ TheEntry(q, "remove").why = "transport"
    /\ pc[q] = "failed"
    /\ store[Key(q)].exists

\* C14. For every ToolContext scope, however its body ends (normal return,
\* termination with any exit status, a wrapped external-process failure, any
\* other exception), sys.stdin and sys.stdout after leaving the scope are the
\* objects they were just before entering it; outside every scope the streams
\* are the process's own.
C14_StreamsRestored ==
  [][ /\ Len(scopes') < Len(scopes) =>
           /\ sys_stdin' = entered[Len(entered)].stdin
           /\ sys_stdout' = entered[Len(entered)].stdout
      /\ Len(scopes') = Len(scopes) /\ tc_count' # tc_count =>
           /\ sys_stdin' = sys_stdin
           /\ sys_stdout' = sys_stdout
      /\ scopes' = <<>> =>
           /\ sys_stdin' = OriginalStdin
           /\ sys_stdout' = OriginalStdout ]_vars

C14_Witness ==
  /\ scopes = <<>>
  /\ tc_count >= 2
  /\ tc_last.body.kind = "SystemExit"
  /\ tc_last.body.code # FAILURE_STATUS
  /\ tc_last.wrote # <<>>
  /\ sys_stdin = OriginalStdin
  /\ sys_stdout = OriginalStdout

\* C15. A body that terminates the process with the failure status makes the
\* scope fail with ToolContextError whose message is exactly what the body
\* wrote; a body that raises CalledProcessError makes it fail with
\* ToolContextError whose message is that process's output without its
\* trailing whitespace; a body that returns leaves the scope with its result
\* and no error.
IsRstripOf(msg, text) ==
  /\ Len(msg) <= Len(text)
  /\ SubSeq(text, 1, Len(msg)) = msg
  /\ msg = <<>> \/ msg[Len(msg)] \notin Whitespace
  /\ \A i \in (Len(msg) + 1)..Len(text) : text[i] \in Whitespace

C15_FailureTranslation ==
  /\ (tc_last.body.kind = "SystemExit" /\ tc_last.body.code = FAILURE_STATUS)
       => tc_last.left = ToolContextError(tc_last.wrote)
  /\ tc_last.body.kind = "CalledProcessError"
       => /\ tc_last.left.kind = "ToolContextError"
          /\ IsRstripOf(tc_last.left.msg, tc_last.body.output)
  /\ tc_last.body.kind = "return" => tc_last.left = tc_last.body

C15_Witness ==
  /\ tc_last.body.kind = "CalledProcessError"
  /\ tc_last.body.output = << "connection failed", "\n", " " >>
  /\ tc_last.left = ToolContextError(<< "connection failed" >>)
  /\ tc_last.wrote = << "error", "\n" >>

\* C16. A ToolContextError raised in name validation, lint, get, replace or
\* remove never reaches the reconcile workflow: the operation hands its caller
\* a PolicyUtilError whose message names the operation ('Name validation
\* failed', 'Lint failed', or the client method), and no invocation ends on a
\* ToolContextError.
ToolFailures == { "exit1", "not_found", "conflict", "transport" }

OperationLabel(op) ==
  CASE op = "validate_name" -> << "Name validation failed" >>
    [] op = "lint" -> << "Lint failed" >>
    [] OTHER -> << "Error during client method '", op, "'" >>

C16_ToolErrorWrapped ==
  \A p \in Procs :
    /\ \A i \in DOMAIN log[p] :
         /\ log[p][i].surfaced.kind # "ToolContextError"
         /\ log[p][i].why \in ToolFailures =>
              /\ log[p][i].surfaced.kind = "PolicyUtilError"
              /\ log[p][i].surfaced.label = OperationLabel(log[p][i].op)
    /\ result[p].kind = "crash" => result[p].exc # "ToolContextError"

C16_Witness ==
  \E p, q \in Procs :
    /\ Did(p, "lint") /\ TheEntry(p, "lint").why = "exit1"
    /\ TheEntry(p, "lint").surfaced.label = << "Lint failed" >>
    /\ pc[p] = "failed"
    /\ Did(q, "get") /\ TheEntry(q, "get").why = "not_found"
    /\ TheEntry(q, "get").surfaced.label = << "Error during client method '", "get", "'" >>
    /\ Did(q, "replace") /\ TheEntry(q, "replace").why = "transport"
    /\ TheEntry(q, "replace").surfaced.kind = "PolicyUtilError"

\* C17. A Present invocation given neither source nor content is rejected
\* with a structured failure report and reaches neither get nor replace.
C17_ContentRequired ==
  \A p \in Procs :
    new_content[p] = None =>
      /\ pc[p] = "failed"
      /\ result[p].kind = "fail_json"
      /\ ~Did(p, "get")
      /\ ~Did(p, "replace")

\* C18. After lint and get, Present goes on to replace exactly when check mode
\* is off and the current content is not the very string desired (contents
\* that differ by a trailing newline differ); otherwise it issues no replace
\* and reports changed false. The one replace it issues carries the desired
\* content and the token its own get returned, or 'new' when get was
\* recovered, and when it succeeds the report has changed true.
LastEntryNext(p) == log'[p][Len(log'[p])]

ReplacesNext(p) == { i \in DOMAIN log'[p] : log'[p][i].op = "replace" }

C18_DecisionRule ==
  [][ \A p \in Procs :
        /\ (pc[p] = "get" /\ pc'[p] # "get") =>
             LET e == LastEntryNext(p)
                 differs == check_mode'[p] = {FALSE} /\ e.content # new_content[p] IN
             /\ e.op = "get"
             /\ e.why = "ok" =>
                  /\ e.content = store[Key(p)].content
                  /\ e.token = store[Key(p)].token
             /\ e.why # "ok" => e.content = "" /\ e.token = TOKEN_NEW
             /\ current_content'[p] = e.content /\ token'[p] = e.token
             /\ IF differs
                THEN pc'[p] = "replace" /\ result'[p] = NoResult
                ELSE /\ pc'[p] = "done"
                     /\ result'[p].kind = "exit_json"
                     /\ result'[p].changed = FALSE
                     /\ ReplacesNext(p) = {}
        /\ (pc[p] = "replace" /\ pc'[p] # "replace") =>
             LET e == LastEntryNext(p) IN
             /\ e.op = "replace"
             /\ Cardinality(ReplacesNext(p)) = 1
             /\ e.content = new_content[p]
             /\ e.token = TheEntry(p, "get").token
             /\ e.why = "ok" =>
                  /\ pc'[p] = "done"
                  /\ result'[p].kind = "exit_json"
                  /\ result'[p].changed = TRUE ]_vars

C18_Witness ==
  \E p \in Procs :
    /\ pc[p] = "done"
    /\ result[p].changed = TRUE
    /\ new_content[p] = "a"
    /\ TheEntry(p, "get").content = "a\n"
    /\ TheEntry(p, "get").token = InitToken
    /\ TheEntry(p, "replace").content = "a"
    /\ TheEntry(p, "replace").token = InitToken
    /\ store[Key(p)].content = "a"

\* C19. Every run of Present or Absent whose external calls each returned or
\* failed ends with exactly one structured report, a success result or a
\* failure report; none ends on an uncaught internal error with no report.
IsPresentRun(p) == new_content[p] # Unset

IsAbsentRun(p) == new_content[p] = Unset /\ check_mode[p] # {}

C19_OneStructuredOutcome ==
  \A p \in Procs :
    ( /\ Terminal(p)
      /\ IsPresentRun(p) \/ IsAbsentRun(p)
      /\ \A i \in DOMAIN log[p] : log[p][i].why # "exit_other" )
    => /\ result[p].kind \in { "exit_json", "fail_json" }
       /\ pc[p] = "done" <=> result[p].kind = "exit_json"
       /\ pc[p] = "failed" <=> result[p].kind = "fail_json"

\* C20. Within one invocation get, replace and remove are each attempted at
\* most once; an invocation that lints, gets or replaces never removes, and
\* one that removes never replaces; once an invocation has reported a failure
\* (or ended in any way) it makes no further call.
CallsNext(p, op) == { i \in DOMAIN log'[p] : log'[p][i].op = op }

C20_NoRetries ==
  [][ \A p \in Procs :
        /\ \A op \in StoreOps : Cardinality(CallsNext(p, op)) <= 1
        /\ CallsNext(p, "remove") # {} =>
             CallsNext(p, "replace") \cup CallsNext(p, "get") \cup CallsNext(p, "lint") = {}
        /\ (result[p].kind = "fail_json" \/ Terminal(p)) =>
             /\ log'[p] = log[p]
             /\ pc'[p] = pc[p]
             /\ result'[p] = result[p] ]_vars

C20_Witness ==
  \E p, q \in Procs :
    /\ pc[p] = "failed"
    /\ Did(p, "get") /\ Did(p, "replace")
    /\ TheEntry(p, "replace").why = "conflict"
    /\ Cardinality(StoreCalls(p)) = 2
    /\ pc[q] = "failed"
    /\ Did(q, "remove") /\ ~Did(q, "replace") /\ ~Did(q, "get")
    /\ Cardinality(StoreCalls(q)) = 1

\* C21. Every Absent invocation issues list() before it issues remove, and in
\* check mode before it reports: an Absent run that has removed or has ended
\* has a list call in its log, ahead of its remove.
C21_AbsentListsFirst ==
  \A p \in Procs :
    IsAbsentRun(p) =>
      /\ Did(p, "list")
      /\ \A i \in Entries(p, "remove") : \E j \in Entries(p, "list") : j < i

\* C22. Every failure report carries the label of the operation that failed,
\* then ": ", then the text of the ToolContextError behind it; reports of
\* failures of different operations (a bad name, bad content, a rejected
\* store write) are different messages.
LastEntry(p) == log[p][Len(log[p])]

CauseText(e) ==
  CASE e.op = "validate_name" -> validate_name(e.name, FAILURE_STATUS).out
    [] e.op = "lint" -> parse_file(e.content, FALSE, FAILURE_STATUS).out
    [] e.why = "not_found" -> << "not found" >>
    [] e.why = "conflict" -> << "token mismatch" >>
    [] OTHER -> << "connection failed" >>

C22_FailureMessage ==
  \A p \in Procs :
    result[p].kind = "fail_json" =>
      /\ log[p] # <<>>
      /\ LastEntry(p).why \in ToolFailures
      /\ result[p].msg = OperationLabel(LastEntry(p).op) \o << ": " >> \o CauseText(LastEntry(p))
      /\ \A q \in Procs :
           (result[q].kind = "fail_json" /\ LastEntry(q).op # LastEntry(p).op)
             => result[q].msg # result[p].msg

C22_Witness ==
  \E p, q \in Procs :
    /\ result[p].kind = "fail_json"
    /\ result[p].msg = << "Error during client method '", "replace", "'", ": ",
                          "token mismatch" >>
    /\ result[q].kind = "fail_json"
    /\ result[q].msg = << "Lint failed", ": ", "syntax error", "\n" >>

\* C23. In every call of name validation, lint, get, replace and remove, and
\* so in every Present or Absent run (whose calls follow one another), at most
\* one ToolContext scope is open at any time: each scope entered is left
\* before another is entered, and none stays open after the call.
ActiveScopes(events, k) ==
  Cardinality({ i \in 1..k : events[i] = "enter" })
    - Cardinality({ i \in 1..k : events[i] = "exit" })

C23_NoNestedCapture ==
  \A p \in Procs : \A i \in DOMAIN log[p] :
    LET events == log[p][i].captures IN
    /\ \A k \in 1..Len(events) : ActiveScopes(events, k) \in { 0, 1 }
    /\ ActiveScopes(events, Len(events)) = 0
    /\ log[p][i].content # None => events # <<>>

C23_Witness ==
  \E p, q \in Procs :
    /\ pc[p] = "done"
    /\ Did(p, "lint") /\ Did(p, "get") /\ Did(p, "replace")
    /\ \A i \in DOMAIN log[p] : log[p][i].captures = << "enter", "exit" >>
    /\ Did(q, "remove")
    /\ TheEntry(q, "remove").captures = << "enter", "exit" >>

\* C24. A routine that terminates the process with a status other than 1
\* inside a ToolContext scope: the scope is left, no ToolContextError is
\* raised, the SystemExit reaches the caller of the PolicyUtil operation with
\* its status unchanged, not rewrapped as PolicyUtilError, and the invocation
\* reports nothing through fail_json (nor a success).
C24_UndesignatedExit ==
  \A p \in Procs : \A i \in DOMAIN log[p] :
    LET e == log[p][i] IN
    (e.status # {} /\ FAILURE_STATUS \notin e.status) =>
      /\ e.captures # <<>> /\ e.captures[Len(e.captures)] = "exit"
      /\ e.surfaced.kind = "SystemExit"
      /\ e.surfaced.code = e.status
      /\ i = Len(log[p])
      /\ result[p].kind \notin { "fail_json", "exit_json" }

C24_Witness ==
  \E p, q \in Procs :
    /\ Did(p, "validate_name") /\ TheEntry(p, "validate_name").status = {2}
    /\ TheEntry(p, "validate_name").surfaced.code = {2}
    /\ Terminal(p) /\ result[p].kind = "crash"
    /\ Did(q, "lint") /\ TheEntry(q, "lint").status = {0}
    /\ TheEntry(q, "lint").surfaced.kind = "SystemExit"
    /\ Terminal(q) /\ result[q].kind = "crash"

====
